---- MODULE Spec2Model ----
(***************************************************************************)
(* The server of Pong-Multiplayer-RS (src/src/bin/server.rs) as a state    *)
(* machine: one frame of the Bevy schedule is the sequence                  *)
(*   update_system (PreUpdate, bevy_renet)                                  *)
(*   server_update_system: one step per ServerEvent, then the message drain *)
(*   panic_on_error_system: one step per RenetError                         *)
(*   resetter                                                               *)
(*   move_players_system                                                    *)
(*   ApplyCommands (the deferred Commands, applied at the end of Update)    *)
(*   send_packets_system (PostUpdate, bevy_renet)                           *)
(*   check_for_collisions (the fixed_update stage, run_if is_game_active)   *)
(* server_update_system is registered first and conflicts with both         *)
(* panic_on_error_system (ResMut<RenetServer>, ResMut<CheckResponses>) and  *)
(* resetter (ResMut<Playing>, ResMut<ResetDue>), so it runs before them;    *)
(* panic_on_error_system and resetter share no data and commute.            *)
(* Between two frames the transport (renet) takes its inputs: sessions      *)
(* open and close, messages and transport errors arrive.                    *)
(* Transforms (paddle and ball positions, velocities) are not part of the   *)
(* state: no system modelled here reads them.                               *)
(* Two further components are modelled next to the server loop, each with   *)
(* variables of its own: the client's application of the snapshots of        *)
(* channel 1 (client_sync_players, set_gamestate) and the bootstrap TCP      *)
(* server that hands out connect tokens (tcpserver, handle_connection).      *)
(* The client's main, which fetches that token and builds the RenetClient,   *)
(* is modelled up to app.run().                                              *)
(* Time is counted in frames: Time::delta() is the unit, and the 3-second   *)
(* window of the ReconnectTimer is Window units long.                       *)
(***************************************************************************)
EXTENDS Integers, Sequences, FiniteSets, Bags, TLC

Min(a, b) == IF a < b THEN a ELSE b

\* ---- bounds of the model ----
NumClients == 3      \* client ids 100, 200, ...
NumProbed == 2       \* how many of them take part in the runs of the liveness monitor
MaxEnv == 2          \* transport inputs taken between two frames
MaxScore == 1        \* cap on each score
NumSnap == 3         \* distinct snapshots the server may have sent
MaxQueue == 2        \* snapshots pending on the client's channel 1
NumConns == 3        \* TCP connections to the bootstrap server
NumQueued == 1       \* connections beyond the size of the pool, when the pool is saturated
MaxTicks == 2        \* milliseconds that pass while the client's main runs

\* ---- program constants ----
Window == 3          \* Timer::from_seconds(3.0, false); the unit is one frame's Time::delta()
HandshakeLen == 8    \* let mut bytes: [u8; 8]
PoolSize == 4        \* ThreadPool::new(4)
PROTOCOL_ID == 7     \* const PROTOCOL_ID: u64 = 7
ExpireSeconds == 120000   \* the third argument of ConnectToken::generate
TimeoutSeconds == 30      \* its fifth argument
PUB_IP == "45.33.33.109:5000"

ClientIds == {100 * i : i \in 1..NumClients}
ProbedIds == {100 * i : i \in 1..Min(NumProbed, NumClients)}
Left == "Left"
Right == "Right"
Paddles == {Left, Right}
NoEntity == "none"
NoInput == "none"
DefaultInput == "default"
Inputs == {"up", "down"}

VARIABLES
    pc,             \* the system of the frame that runs next
    budget,         \* transport inputs still allowed before the next frame
    connected,      \* RenetServer: the ids of server.clients_id()
    chan0,          \* RenetServer: per client, received channel-0 messages
    chan2,          \* RenetServer: per client, received channel-2 messages (claimed ids)
    renet_events,   \* RenetServer: ServerEvents not yet forwarded to Bevy
    server_events,  \* Events<ServerEvent> this frame's reader has not read
    renet_error,    \* Events<RenetError>: number not yet read
    sent,           \* messages handed to the transport this frame (a bag)
    lobby,          \* Lobby.players: client id -> paddle entity
    player,         \* paddle entities carrying the Player component
    pinput,         \* paddle entity -> its PlayerInput component
    table0,         \* storage order of the paddles with neither Player nor PlayerInput
    table2,         \* storage order of the paddles with PlayerInput and no Player
    commands,       \* Commands queued this frame
    responses,      \* CheckResponses.0
    timer,          \* ReconnectTimer.0: [elapsed, paused]
    latch,          \* ReconnectTimer.1
    playing,        \* Playing.0
    scoreleft,      \* Scoreboard.scoreleft
    scoreright,     \* Scoreboard.scoreright
    is_reset_due,   \* ResetDue.is_reset_due
    \* history variables: written by the actions, read by none of them
    handled,        \* the ServerEvent handled last in this frame, and what it did
    expiry,         \* the window expiry of this frame, if any, and the state it found
    vouched,        \* ids whose own check-response was received since the last expiry
    answered,       \* ids whose own check-response was received since the probe of the cycle
    spoofed,        \* ids claimed this frame by a sender with another id
    armedFor,       \* frames since the probe was armed (capped at Window)
    scenB,          \* progress of scenario B of the specification
    probes,         \* PlayerCheck broadcasts since the cycle was armed (capped at 2)
    probe,          \* the arming of this frame, if any, and what it broadcast
    lastInput,      \* per client, the last channel-0 message drained this frame
    pinput0,        \* the PlayerInput components before this frame's Commands were applied
    moved,          \* per paddle, the PlayerInput that move_players_system used this frame
    signalled,      \* the transport has reported an error since the start
    announced,      \* ids whose PlayerConnected was broadcast and no PlayerDisconnected since
    \* the client (client.rs, common_game.rs)
    client,         \* ball, paddles, Scoreboard and Playing of the client's world
    chan1,          \* RenetClient: received channel-1 messages (GameState)
    before,         \* history: the client's world before its last drain of channel 1
    drainedQ,       \* history: the messages of that drain, in order
    session_id,     \* RenetClient::client_id()
    cin0,           \* RenetClient: received channel-0 messages (ServerMessages)
    cout2,          \* the channel-2 messages the client sent in its last drain
    drained0,       \* history: the channel-0 messages of that drain, in order
    \* the bootstrap server (server.rs tcpserver, handle_connection)
    listening,      \* the accept loop runs
    workers,        \* live threads of the pool
    jobs,           \* jobs sent to the pool and not yet started
    job,            \* per connection, the state of its handle_connection job
    stream,         \* per connection, bytes received so far and whether the peer closed
    abortSaw,       \* history: connections queued or running when another one's job panicked
    wrote,          \* per connection, the client id its peer writes on the stream
    out,            \* per connection, the ConnectTokens the server wrote on the stream
    pkey,           \* the private key generated in main
    \* the client's main (client.rs main, new_renet_client)
    clock,          \* SystemTime::now() since UNIX_EPOCH, in milliseconds
    main_pc,        \* how far main has run
    main_id,        \* main's local `id`, written on the bootstrap stream
    token           \* main's local `token`, read from the bootstrap stream

prog == <<connected, chan0, chan2, renet_events, server_events, renet_error, sent,
          lobby, player, pinput, table0, table2, commands, responses, timer, latch,
          playing, scoreleft, scoreright, is_reset_due>>
hist2 == <<probes, probe, lastInput, pinput0, moved, signalled>>
hist1 == <<handled, expiry, vouched, answered, spoofed, armedFor, scenB>>
hist3 == <<announced>>
hist == <<hist1, hist2, hist3>>
proto == <<session_id, cin0, cout2, drained0>>
cli == <<client, chan1, before, drainedQ, proto>>
cred == <<wrote, out, pkey>>
boot == <<listening, workers, jobs, job, stream, abortSaw, cred>>
mainv == <<clock, main_pc, main_id, token>>
rest == <<cli, boot, mainv>>
vars == <<pc, budget, prog, hist, rest>>


\* ---------------------------------------------------------------- helpers

Range(s) == {s[i] : i \in 1..Len(s)}

\* All orders in which the keys S of a HashMap can be iterated.
Orders(S) ==
    {s \in [1..Cardinality(S) -> S] : \A i, j \in 1..Cardinality(S) : s[i] = s[j] => i = j}

\* ServerEvent
ClientConnected(id) == [type |-> "ClientConnected", id |-> id]
ClientDisconnected(id) == [type |-> "ClientDisconnected", id |-> id]

\* ServerMessages
PlayerConnected(id) == [kind |-> "PlayerConnected", arg |-> id]
PlayerDisconnected(id) == [kind |-> "PlayerDisconnected", arg |-> id]
PlayerIsSide(side) == [kind |-> "PlayerIsSide", arg |-> side]
PlayerCheck == [kind |-> "PlayerCheck", arg |-> 0]

\* A message handed to the transport for one client.
Msg(to, channel, message) == [to |-> to, channel |-> channel, message |-> message]

NoEvent == [type |-> "none", id |-> 0, outcome |-> "none", side |-> NoEntity,
            peers |-> {}, conn |-> {}, msgs |-> EmptyBag, queued |-> 0,
            wasPlaying |-> FALSE, hadScore |-> FALSE, freed |-> {}]
NoProbe == [happened |-> FALSE, conn |-> {}, msgs |-> EmptyBag]
NoExpiry == [happened |-> FALSE, conn |-> {}, resp |-> {}, vouched |-> {}, answered |-> {}]

\* lobby.players.keys()
Keys(l) == {c \in ClientIds : l[c] # NoEntity}

\* RenetServer::send_message: a message to a client with no connection is dropped.
SendMessage(conn, id, channel, message) ==
    IF id \in conn THEN SetToBag({Msg(id, channel, message)}) ELSE EmptyBag

\* RenetServer::broadcast_message: one copy to every connection.
BroadcastToNone(conn, channel, message) == EmptyBag
BroadcastOffChannel(conn, channel, message) ==
    SetToBag({Msg(c, channel + 1, message) : c \in conn})
BroadcastMessage(conn, channel, message) ==
    SetToBag({Msg(c, channel, message) : c \in conn})

\* RenetServer::disconnect: the connections are removed at once ...
ServerDisconnect(conn, ids) == conn \ ids
\* ... and for each a ClientDisconnected event is queued, which Bevy sees in
\* the next frame. Disconnecting an id with no connection does nothing.
DisconnectEvents(conn, order) ==
    SelectSeq([i \in 1..Len(order) |-> ClientDisconnected(order[i])],
              LAMBDA ev : ev.id \in conn)

\* paddles.iter() of Query<(Entity, &PaddleSide), (With<Paddle>, Without<Player>)>:
\* the tables are visited in the order they were created, each in storage order.
QueryPaddles(t0, t2) == t0 \o t2

\* server.rs:216, the admission that fills the lobby asks for a reset.
ResetIsDueAtThree(n) == n >= 3
ResetIsDue(n) == n >= 2

\* server.rs:235, the guard of the pause-and-reset on a disconnect.
DisconnectPausesAtTwo(n) == n >= 2
DisconnectPausesEmpty(n) == n < 1
DisconnectPauses(n) == n <= 2

\* server.rs:314, `for _ in renet_error.iter()`: the body runs once per unread RenetError.
ErrorsToReadAlways(n) == TRUE
ErrorsToRead(n) == n > 0

\* server.rs:318, a RenetError arms a cycle if the timer is paused and the latch is down.
ShouldArmAlways(t, l) == TRUE
ShouldArm(t, l) == t.paused /\ ~l

\* server.rs:266, a check-response is accepted if the claimed id is the sender's.
AcceptResponseAny(client_id, id) == TRUE
AcceptResponse(client_id, id) == id = client_id

\* server.rs:330-334, the clients disconnected when the window expires.
ExpiryDisconnectsNone(conn, resp) == {}
ExpiryDisconnectsAll(conn, resp) == conn
ExpiryDisconnects(conn, resp) == {c \in conn : c \notin resp}

\* server.rs:337-338, timer.0.reset() and timer.0.pause() at the window's expiry.
ResetOnly(t) == [t EXCEPT !.elapsed = 0]
ResetAndPause(t) == [elapsed |-> 0, paused |-> TRUE]

\* Timer::tick of a non-repeating timer by one unit: a paused timer does not advance.
TimerTick(t) ==
    IF t.paused THEN t ELSE [t EXCEPT !.elapsed = Min(t.elapsed + 1, Window)]
\* Timer::just_finished after that tick.
JustFinished(t) == ~t.paused /\ t.elapsed < Window /\ t.elapsed + 1 >= Window

\* ------------------------------------------------- entities and Commands

InsertPlayer(e) == [op |-> "insert Player", e |-> e, v |-> NoInput]
InsertInput(e, v) == [op |-> "insert PlayerInput", e |-> e, v |-> v]
RemovePlayer(e) == [op |-> "remove Player", e |-> e, v |-> NoInput]
RemoveInput(e) == [op |-> "remove PlayerInput", e |-> e, v |-> NoInput]

\* Table::swap_remove: the last row takes the place of the removed one.
SwapRemove(s, e) ==
    IF e \notin Range(s) THEN s
    ELSE LET i == CHOOSE k \in 1..Len(s) : s[k] = e
             n == Len(s)
         IN  [j \in 1..(n - 1) |-> IF j = i THEN s[n] ELSE s[j]]

\* One command applied to the world w = [player, pinput, table0, table2].
\* Adding or removing a component moves the entity to the end of the table of
\* its new archetype; replacing a component's value moves nothing.
ApplyCommand(w, c) ==
    LET e == c.e
        hasP == e \in w.player
        hasI == w.pinput[e] # NoInput
    IN  CASE c.op = "insert Player" ->
               IF hasP THEN w
               ELSE [w EXCEPT !.player = @ \cup {e},
                              !.table0 = IF hasI THEN @ ELSE SwapRemove(@, e),
                              !.table2 = IF hasI THEN SwapRemove(@, e) ELSE @]
          [] c.op = "insert PlayerInput" ->
               IF hasI \/ hasP THEN [w EXCEPT !.pinput[e] = c.v]
               ELSE [w EXCEPT !.pinput[e] = c.v,
                              !.table0 = SwapRemove(@, e),
                              !.table2 = Append(@, e)]
          [] c.op = "remove Player" ->
               IF ~hasP THEN w
               ELSE [w EXCEPT !.player = @ \ {e},
                              !.table0 = IF hasI THEN @ ELSE Append(@, e),
                              !.table2 = IF hasI THEN Append(@, e) ELSE @]
          [] c.op = "remove PlayerInput" ->
               IF ~hasI THEN w
               ELSE IF hasP THEN [w EXCEPT !.pinput[e] = NoInput]
               ELSE [w EXCEPT !.pinput[e] = NoInput,
                              !.table2 = SwapRemove(@, e),
                              !.table0 = Append(@, e)]

RECURSIVE ApplyAll(_, _)
ApplyAll(w, cmds) ==
    IF cmds = <<>> THEN w ELSE ApplyAll(ApplyCommand(w, Head(cmds)), Tail(cmds))

\* server.rs:253-259, the commands queued by draining the channel-0 messages
\* of the clients in the order the loop visits them.
RECURSIVE InputCommands(_, _, _)
InputCommands(order, l, c0) ==
    IF order = <<>> THEN <<>>
    ELSE LET id == Head(order)
             mine == IF l[id] = NoEntity THEN <<>>
                     ELSE [i \in 1..Len(c0[id]) |-> InsertInput(l[id], c0[id][i])]
         IN  mine \o InputCommands(Tail(order), l, c0)

\* server.rs:261-272, the ids pushed to CheckResponses by draining channel 2.
AcceptedResponses(conn, c2) ==
    UNION {{c2[c][i] : i \in {k \in 1..Len(c2[c]) : AcceptResponse(c, c2[c][k])}} : c \in conn}

\* A message that bincode::deserialize rejects: on channel 0 bytes that are no
\* PlayerInput (server.rs:255), on channel 2 bytes that are no ClientMessages
\* (server.rs:262).
Malformed(channel) == IF channel = 0 THEN "malformed" ELSE 0 - 1

\* the positions of the malformed messages of a queue
Bad(q, channel) == {k \in 1..Len(q) : q[k] = Malformed(channel)}
Least(S) == CHOOSE x \in S : \A y \in S : x <= y

\* The messages of a queue that the drain deserializes before unwrap() panics
\* on the first malformed one: all of them if none is malformed.
WholeQueue(q, channel) == q
GoodPrefix(q, channel) ==
    IF Bad(q, channel) = {} THEN q ELSE SubSeq(q, 1, Least(Bad(q, channel)) - 1)
\* The messages still in the queue after that: receive_message took the
\* malformed one too.
AfterBad(q, channel) ==
    IF Bad(q, channel) = {} THEN <<>> ELSE SubSeq(q, Least(Bad(q, channel)) + 1, Len(q))

\* server.rs:251-273, the drain visiting the clients in `order`, channel 0 and
\* then channel 2 of each. Pos is the place of a client in that order and
\* StopAt the place of the first client with a malformed message, where the
\* drain panics (past the end if there is none).
Pos(order, c) ==
    IF c \in Range(order) THEN CHOOSE i \in 1..Len(order) : order[i] = c ELSE 0
StopAt(order, c0, c2) ==
    LET bad == {i \in 1..Len(order) :
                    Bad(c0[order[i]], 0) # {} \/ Bad(c2[order[i]], 2) # {}}
    IN  IF bad = {} THEN Len(order) + 1 ELSE Least(bad)

\* the messages the drain handles, per client and channel
Handled0(order, c0, c2) ==
    LET stop == StopAt(order, c0, c2)
    IN  [c \in ClientIds |->
            IF Pos(order, c) = 0 \/ Pos(order, c) > stop THEN <<>>
            ELSE IF Pos(order, c) < stop THEN c0[c] ELSE GoodPrefix(c0[c], 0)]
Handled2(order, c0, c2) ==
    LET stop == StopAt(order, c0, c2)
    IN  [c \in ClientIds |->
            IF Pos(order, c) = 0 \/ Pos(order, c) > stop THEN <<>>
            ELSE IF Pos(order, c) < stop THEN c2[c]
            ELSE IF Bad(c0[c], 0) # {} THEN <<>> ELSE GoodPrefix(c2[c], 2)]

\* the messages it leaves in the queues
Left0(order, c0, c2) ==
    LET stop == StopAt(order, c0, c2)
    IN  [c \in ClientIds |->
            IF Pos(order, c) = 0 \/ Pos(order, c) > stop THEN c0[c]
            ELSE IF Pos(order, c) < stop THEN <<>> ELSE AfterBad(c0[c], 0)]
Left2(order, c0, c2) ==
    LET stop == StopAt(order, c0, c2)
    IN  [c \in ClientIds |->
            IF Pos(order, c) = 0 \/ Pos(order, c) > stop THEN c2[c]
            ELSE IF Pos(order, c) < stop THEN <<>>
            ELSE IF Bad(c0[c], 0) # {} THEN c2[c] ELSE AfterBad(c2[c], 2)]

\* ---------------------------------------------- the client and its snapshots

\* usize from i32 (`as usize`): a negative value wraps to 2^64 + x, which is
\* kept as a record because it exceeds the integers of the model checker.
AsUsize(x) == IF x >= 0 THEN x ELSE [wrapped |-> x]

\* GameState number k of the server: every field differs from every other
\* field and from the fields of the other snapshots.
Snapshot(k) ==
    [ball_loc |-> <<10 * k + 1, 10 * k + 2>>,
     ball_velocity |-> <<10 * k + 3, 10 * k + 4>>,
     paddle_l_loc |-> <<10 * k + 5, 10 * k + 6>>,
     paddle_r_loc |-> <<10 * k + 7, 10 * k + 8>>,
     score_l |-> k - 1,
     score_r |-> NumSnap + k,
     playing |-> (k % 2 = 1)]
GameStates == {Snapshot(k) : k \in 1..NumSnap}

\* The client's world after setup_client and add_to_app_client: paddles at
\* x = -390 and x = 390, the ball at BALL_STARTING_POSITION with the initial
\* velocity (rounded to integers), Scoreboard 0:0, Playing(false).
InitialWorld ==
    [ball_loc |-> <<0, -50>>,
     ball_velocity |-> <<283, -283>>,
     paddle |-> [s \in Paddles |-> IF s = Left THEN <<-390, 0>> ELSE <<390, 0>>],
     scoreleft |-> 0,
     scoreright |-> 0,
     playing |-> FALSE]

\* common_game.rs:364-390
set_gamestate_adding(w, gamestate) ==
    [ball_loc |-> gamestate.ball_loc,
     ball_velocity |-> gamestate.ball_velocity,
     paddle |-> [s \in Paddles |-> IF s = Left THEN gamestate.paddle_l_loc
                                   ELSE gamestate.paddle_r_loc],
     scoreleft |-> w.scoreleft + AsUsize(gamestate.score_l),
     scoreright |-> w.scoreright + AsUsize(gamestate.score_r),
     playing |-> gamestate.playing]
set_gamestate_keeping_ball(w, gamestate) ==
    [ball_loc |-> gamestate.ball_loc,
     ball_velocity |-> w.ball_velocity,
     paddle |-> [s \in Paddles |-> IF s = Left THEN gamestate.paddle_l_loc
                                   ELSE gamestate.paddle_r_loc],
     scoreleft |-> AsUsize(gamestate.score_l),
     scoreright |-> AsUsize(gamestate.score_r),
     playing |-> gamestate.playing]
set_gamestate(w, gamestate) ==
    [ball_loc |-> <<gamestate.ball_loc[1], gamestate.ball_loc[2]>>,
     ball_velocity |-> <<gamestate.ball_velocity[1], gamestate.ball_velocity[2]>>,
     paddle |-> [s \in Paddles |-> IF s = Left
                                   THEN <<gamestate.paddle_l_loc[1], gamestate.paddle_l_loc[2]>>
                                   ELSE <<gamestate.paddle_r_loc[1], gamestate.paddle_r_loc[2]>>],
     scoreleft |-> AsUsize(gamestate.score_l),
     scoreright |-> AsUsize(gamestate.score_r),
     playing |-> gamestate.playing]

\* client.rs:109-112, the loop over client.receive_message(1)
RECURSIVE ApplySnapshots(_, _)
ApplySnapshots(w, q) ==
    IF q = <<>> THEN w ELSE ApplySnapshots(set_gamestate(w, Head(q)), Tail(q))

\* ClientMessages::PlayerCheckResponse
PlayerCheckResponse(id) == [kind |-> "PlayerCheckResponse", arg |-> id]

\* the ServerMessages a client may find on channel 0
ServerNotices == {PlayerConnected(200), PlayerDisconnected(200), PlayerCheck}

\* client.rs:89-103, what the client sends for one message of channel 0:
\* a PlayerCheck is answered on channel 2 with the client's own id.
AnswerToAny(m, id) == <<[channel |-> 2, message |-> PlayerCheckResponse(id)]>>
AnswerTo(m, id) ==
    IF m = PlayerCheck THEN <<[channel |-> 2, message |-> PlayerCheckResponse(id)]>>
    ELSE <<>>

\* client.rs:87-104, the loop over client.receive_message(0)
RECURSIVE Answers(_, _)
Answers(q, id) ==
    IF q = <<>> THEN <<>> ELSE AnswerTo(Head(q), id) \o Answers(Tail(q), id)

InitWorld ==
    /\ client = InitialWorld
    /\ chan1 = <<>>
    /\ before = InitialWorld
    /\ drainedQ = <<>>
    /\ cin0 = <<>>
    /\ cout2 = <<>>
    /\ drained0 = <<>>

\* no client id yet, no ConnectToken yet
NoId == 0
NoToken == [client_id |-> NoId]
\* the first reading of the clock
Epoch == 100

\* The client once main has reached app.run(): its RenetClient is built, here
\* with the id 100; the locals `id` and `token` of main are read by no
\* system, and are not kept.
InitClient ==
    /\ InitWorld
    /\ session_id = 100
    /\ clock = Epoch
    /\ main_pc = "running"
    /\ main_id = NoId
    /\ token = NoToken

\* The client at the start of main: no RenetClient yet.
InitMain ==
    /\ InitWorld
    /\ session_id = NoId
    /\ clock = Epoch
    /\ main_pc = "start"
    /\ main_id = NoId
    /\ token = NoToken

\* ------------------------------------------------- the bootstrap server

ConnIds == 1..NumConns
\* the connections of a saturated pool: one per worker and NumQueued more
PoolConns == 1..(PoolSize + NumQueued)
AllConns == ConnIds \cup PoolConns
\* what a client writes at once
Chunks == {3, 5, HandshakeLen}
\* the client ids the peers write
BootIds == {1, 256}

\* u64::to_be_bytes (client.rs:50), the `len` low-order bytes, most significant first.
RECURSIVE ToBeBytes(_, _)
ToBeBytes(n, len) ==
    IF len = 0 THEN <<>> ELSE Append(ToBeBytes(n \div 256, len - 1), n % 256)

\* u64::from_be_bytes (server.rs:70)
RECURSIVE FromBytesSum(_)
FromBytesSum(b) ==
    IF b = <<>> THEN 0 ELSE FromBytesSum(SubSeq(b, 1, Len(b) - 1)) + b[Len(b)]
RECURSIVE FromBeBytes(_)
FromBeBytes(b) ==
    IF b = <<>> THEN 0 ELSE FromBeBytes(SubSeq(b, 1, Len(b) - 1)) * 256 + b[Len(b)]

\* the bytes read_exact has filled in once HandshakeLen bytes of the peer arrived
BytesRead(c) == SubSeq(ToBeBytes(wrote[c], HandshakeLen), 1, Min(stream[c].got, HandshakeLen))

\* server.rs:73-82, ConnectToken::generate(now, PROTOCOL_ID, 120000, client_id,
\* 30, vec![addr], None, &pkey) with addr = PUB_IP
Token(client_id, key) ==
    [protocol_id |-> PROTOCOL_ID, expire_seconds |-> ExpireSeconds,
     client_id |-> client_id, timeout_seconds |-> TimeoutSeconds,
     server_addresses |-> <<PUB_IP>>, private_key |-> key]

\* threadpool: a worker whose job panics is replaced by a new thread.
WorkerLostOnPanic(n) == n - 1
WorkersAfterPanic(n) == (n - 1) + 1

\* threadpool: a queued job starts when fewer jobs run than the pool has threads.
WorkerAlwaysIdle(running, n) == TRUE
WorkerIdle(running, n) == running < n

\* jobs that occupy a worker
Running == {c \in AllConns : job[c] = "running"}

\* The TcpStream moved into the job is dropped, which closes it, when
\* handle_connection returns or unwinds.
Dropped(c) == job[c] \in {"token", "panicked"}

InitBoot ==
    /\ listening = TRUE
    /\ workers = PoolSize
    /\ jobs = <<>>
    /\ job = [c \in AllConns |-> "none"]
    /\ stream = [c \in AllConns |-> [got |-> 0, closed |-> FALSE]]
    /\ abortSaw = {}
    /\ wrote = [c \in AllConns |-> 0]
    /\ out = [c \in AllConns |-> <<>>]
    /\ pkey = "pkey"

\* ---------------------------------------------------------------- Init

\* The state after main and the startup system setup_server: the two paddles
\* are spawned Left first, both without Player and PlayerInput.
InitServer ==
    /\ pc = "transport"
    /\ budget = MaxEnv
    /\ connected = {}
    /\ chan0 = [c \in ClientIds |-> <<>>]
    /\ chan2 = [c \in ClientIds |-> <<>>]
    /\ renet_events = <<>>
    /\ server_events = <<>>
    /\ renet_error = 0
    /\ sent = EmptyBag
    /\ lobby = [c \in ClientIds |-> NoEntity]
    /\ player = {}
    /\ pinput = [e \in Paddles |-> NoInput]
    /\ table0 = <<Left, Right>>
    /\ table2 = <<>>
    /\ commands = <<>>
    /\ responses = {}
    /\ timer = [elapsed |-> 0, paused |-> TRUE]
    /\ latch = FALSE
    /\ playing = FALSE
    /\ scoreleft = 0
    /\ scoreright = 0
    /\ is_reset_due = FALSE
    /\ handled = NoEvent
    /\ expiry = NoExpiry
    /\ vouched = {}
    /\ answered = {}
    /\ spoofed = {}
    /\ armedFor = 0
    /\ scenB = "none"
    /\ probes = 0
    /\ probe = NoProbe
    /\ lastInput = [c \in ClientIds |-> NoInput]
    /\ pinput0 = [e \in Paddles |-> NoInput]
    /\ moved = [e \in Paddles |-> NoInput]
    /\ signalled = FALSE
    /\ announced = {}

Init == InitServer /\ InitClient /\ InitBoot

\* ------------------------------------------------ the transport's inputs

game == <<lobby, player, pinput, table0, table2, commands, responses, timer, latch,
          playing, scoreleft, scoreright, is_reset_due>>

\* A client completes the handshake: renet adds the connection and queues
\* ServerEvent::ClientConnected.
OpenSession(id) ==
    /\ pc = "transport" /\ budget > 0
    /\ id \notin connected
    /\ budget' = budget - 1
    /\ connected' = connected \cup {id}
    /\ renet_events' = Append(renet_events, ClientConnected(id))
    /\ UNCHANGED <<pc, chan0, chan2, server_events, renet_error, sent, game, hist>>
    /\ UNCHANGED rest

\* A client disconnects (client.rs on_exit) or its session times out: renet
\* removes the connection and queues ServerEvent::ClientDisconnected.
CloseSession(id) ==
    /\ pc = "transport" /\ budget > 0
    /\ id \in connected
    /\ budget' = budget - 1
    /\ connected' = connected \ {id}
    /\ chan0' = [chan0 EXCEPT ![id] = <<>>]
    /\ chan2' = [chan2 EXCEPT ![id] = <<>>]
    /\ renet_events' = Append(renet_events, ClientDisconnected(id))
    /\ UNCHANGED <<pc, server_events, renet_error, sent, game, hist>>
    /\ UNCHANGED rest

\* client.rs client_send_input: an input sample arrives on channel 0.
SendInput(id, v) ==
    /\ pc = "transport" /\ budget > 0
    /\ id \in connected
    /\ budget' = budget - 1
    /\ chan0' = [chan0 EXCEPT ![id] = Append(@, v)]
    /\ UNCHANGED <<pc, connected, chan2, renet_events, server_events, renet_error,
                   sent, game, hist>>
    /\ UNCHANGED rest

\* A check-response arrives on channel 2 of the session of `id`. The client of
\* this repository claims its own id (client.rs:100); the server cannot assume
\* that of a peer, so any claimed id may arrive.
SendCheckResponse(id, claimed) ==
    /\ pc = "transport" /\ budget > 0
    /\ id \in connected
    /\ budget' = budget - 1
    /\ chan2' = [chan2 EXCEPT ![id] = Append(@, claimed)]
    /\ UNCHANGED <<pc, connected, chan0, renet_events, server_events, renet_error,
                   sent, game, hist>>
    /\ UNCHANGED rest

\* Bytes that deserialize to no message of the channel arrive from `id`.
SendMalformed(id, channel) ==
    /\ pc = "transport" /\ budget > 0
    /\ id \in connected
    /\ budget' = budget - 1
    /\ chan0' = IF channel = 0 THEN [chan0 EXCEPT ![id] = Append(@, Malformed(0))] ELSE chan0
    /\ chan2' = IF channel = 2 THEN [chan2 EXCEPT ![id] = Append(@, Malformed(2))] ELSE chan2
    /\ UNCHANGED <<pc, connected, renet_events, server_events, renet_error,
                   sent, game, hist>>
    /\ UNCHANGED rest

\* The transport reports an error: one RenetError event.
TransportError ==
    /\ pc = "transport" /\ budget > 0
    /\ budget' = budget - 1
    /\ renet_error' = renet_error + 1
    /\ signalled' = TRUE
    /\ UNCHANGED <<pc, connected, chan0, chan2, renet_events, server_events,
                   sent, game, hist1, probes, probe, lastInput, pinput0, moved, announced>>
    /\ UNCHANGED rest

\* bevy_renet's update_system (PreUpdate): the queued ServerEvents are
\* forwarded to Bevy's Events<ServerEvent>; a frame of time has passed.
update_system ==
    /\ pc = "transport"
    /\ pc' = "server_update"
    /\ budget' = MaxEnv
    /\ server_events' = server_events \o renet_events
    /\ renet_events' = <<>>
    /\ armedFor' = IF latch THEN Min(armedFor + 1, Window) ELSE 0
    /\ UNCHANGED <<connected, chan0, chan2, renet_error, sent, game,
                   handled, expiry, vouched, answered, spoofed, scenB, hist2, hist3>>
    /\ UNCHANGED rest

\* --------------------------------------------------- server_update_system

\* server.rs:187-225, the arm ServerEvent::ClientConnected of the event loop.
HandleClientConnected ==
    /\ pc = "server_update"
    /\ server_events # <<>>
    /\ Head(server_events).type = "ClientConnected"
    /\ server_events' = Tail(server_events)
    /\ LET id == Head(server_events).id
           paddles == QueryPaddles(table0, table2)
           note == [NoEvent EXCEPT !.type = "ClientConnected", !.id = id,
                                   !.peers = Keys(lobby), !.conn = connected,
                                   !.wasPlaying = playing,
                                   !.hadScore = (scoreleft + scoreright > 0),
                                   !.freed = handled.freed]
       IN  IF paddles = <<>>
           THEN \* no paddle without a Player: disconnect the client and continue
                /\ connected' = ServerDisconnect(connected, {id})
                /\ renet_events' = renet_events \o DisconnectEvents(connected, <<id>>)
                /\ chan0' = [chan0 EXCEPT ![id] = <<>>]
                /\ chan2' = [chan2 EXCEPT ![id] = <<>>]
                /\ handled' = [note EXCEPT !.outcome = "rejected"]
                /\ UNCHANGED <<sent, lobby, commands, is_reset_due, announced>>
           ELSE LET player_entity == Head(paddles)
                    new == [m \in {Msg(id, 0, PlayerConnected(p)) :
                                      p \in IF id \in connected THEN Keys(lobby) ELSE {}}
                               |-> 1]
                           (+) SendMessage(connected, id, 0, PlayerIsSide(player_entity))
                           (+) BroadcastMessage(connected, 0, PlayerConnected(id))
                    lobby2 == [lobby EXCEPT ![id] = player_entity]
                IN  /\ commands' = commands \o
                           <<InsertPlayer(player_entity),
                             InsertInput(player_entity, DefaultInput)>>
                    /\ sent' = sent (+) new
                    /\ lobby' = lobby2
                    /\ is_reset_due' = (ResetIsDue(Cardinality(Keys(lobby2))) \/ is_reset_due)
                    /\ handled' = [note EXCEPT !.outcome = "admitted", !.side = player_entity,
                                               !.msgs = new, !.queued = 2]
                    /\ announced' = announced \cup {id}
                    /\ UNCHANGED <<connected, renet_events, chan0, chan2>>
    /\ scenB' = IF scenB = "handled" THEN "none" ELSE scenB
    /\ UNCHANGED <<pc, budget, renet_error, player, pinput, table0, table2,
                   responses, timer, latch, playing, scoreleft, scoreright,
                   expiry, vouched, answered, spoofed, armedFor, hist2>>
    /\ UNCHANGED rest

\* server.rs:226-247, the arm ServerEvent::ClientDisconnected of the event loop.
HandleClientDisconnected ==
    /\ pc = "server_update"
    /\ server_events # <<>>
    /\ Head(server_events).type = "ClientDisconnected"
    /\ server_events' = Tail(server_events)
    /\ LET id == Head(server_events).id
           lobby2 == [lobby EXCEPT ![id] = NoEntity]
           pause == DisconnectPauses(Cardinality(Keys(lobby2)))
           new == BroadcastMessage(connected, 0, PlayerDisconnected(id))
       IN  /\ lobby' = lobby2
           /\ commands' = IF lobby[id] # NoEntity
                          THEN commands \o <<RemovePlayer(lobby[id]), RemoveInput(lobby[id])>>
                          ELSE commands
           /\ playing' = IF pause THEN FALSE ELSE playing
           /\ scoreleft' = IF pause THEN 0 ELSE scoreleft
           /\ scoreright' = IF pause THEN 0 ELSE scoreright
           /\ sent' = sent (+) new
           /\ announced' = announced \ {id}
           /\ handled' = [NoEvent EXCEPT !.type = "ClientDisconnected", !.id = id,
                                         !.outcome = IF lobby[id] # NoEntity THEN "removed"
                                                     ELSE "absent",
                                         !.side = lobby[id],
                                         !.peers = Keys(lobby), !.conn = connected,
                                         !.msgs = new,
                                         !.queued = Len(commands') - Len(commands),
                                         !.wasPlaying = playing,
                                         !.hadScore = (scoreleft + scoreright > 0),
                                         !.freed = handled.freed \cup ({lobby[id]} \ {NoEntity})]
           /\ scenB' = IF scenB = "due" /\ id = 200 THEN "handled"
                       ELSE IF scenB = "handled" THEN "none" ELSE scenB
    /\ UNCHANGED <<pc, budget, connected, chan0, chan2, renet_events, renet_error,
                   player, pinput, table0, table2, responses, timer, latch, is_reset_due,
                   expiry, vouched, answered, spoofed, armedFor, hist2>>
    /\ UNCHANGED rest

\* server.rs:251-273, the message drain over server.clients_id(): channel 0
\* (inputs) and channel 2 (check-responses) of every connected client. A
\* message that fails to deserialize panics in unwrap(): the system has run
\* this far, its Commands are never applied, and the panic of a system ends
\* App::run.
ReceiveMessages ==
    /\ pc = "server_update"
    /\ server_events = <<>>
    /\ \E order \in Orders(connected) :
         /\ pc' = IF StopAt(order, chan0, chan2) <= Len(order) THEN "crashed"
                  ELSE "panic_on_error"
         /\ chan0' = Left0(order, chan0, chan2)
         /\ chan2' = Left2(order, chan0, chan2)
         /\ commands' = commands \o InputCommands(order, lobby, Handled0(order, chan0, chan2))
         /\ lastInput' = [c \in ClientIds |->
                              IF c \in connected /\ lobby[c] # NoEntity /\ chan0'[c] # chan0[c]
                                 /\ Handled0(order, chan0, chan2)[c] # <<>>
                              THEN Handled0(order, chan0, chan2)[c][Len(Handled0(order, chan0, chan2)[c])]
                              ELSE NoInput]
         /\ LET h2 == Handled2(order, chan0, chan2)
            IN  /\ responses' = responses \cup AcceptedResponses(connected, h2)
                /\ vouched' = vouched \cup {c \in connected : c \in Range(h2[c])}
                /\ answered' = IF latch
                               THEN answered \cup {c \in connected : c \in Range(h2[c])}
                               ELSE {}
                /\ spoofed' = UNION {Range(h2[c]) \ {c} : c \in connected}
    /\ scenB' = "none"
    /\ UNCHANGED <<budget, connected, renet_events, server_events, renet_error, sent,
                   lobby, player, pinput, table0, table2, timer, latch,
                   playing, scoreleft, scoreright, is_reset_due,
                   handled, expiry, armedFor, probes, probe, pinput0, moved, signalled, announced>>
    /\ UNCHANGED rest

\* --------------------------------------------------- panic_on_error_system

\* Scenario B of the specification, as the window expires: 100 on Left and
\* 200 on Right are connected and playing, and only 100 answered the probe.
ScenarioB ==
    /\ Keys(lobby) = {100, 200}
    /\ lobby[100] = Left /\ lobby[200] = Right
    /\ connected = {100, 200}
    /\ playing
    /\ responses = {100} /\ answered = {100}

\* server.rs:311-342, one iteration of `for _ in renet_error.iter()`.
panic_on_error_system ==
    /\ pc = "panic_on_error"
    /\ ErrorsToRead(renet_error)
    /\ renet_error' = renet_error - 1
    /\ IF ShouldArm(timer, latch)
       THEN \* arm: broadcast the probe, start the window
            /\ sent' = sent (+) BroadcastMessage(connected, 0, PlayerCheck)
            /\ timer' = [timer EXCEPT !.paused = FALSE]
            /\ latch' = TRUE
            /\ armedFor' = 0
            /\ answered' = {}
            /\ probes' = Min(probes + 1, 2)
            /\ probe' = [happened |-> TRUE, conn |-> connected,
                         msgs |-> BroadcastMessage(connected, 0, PlayerCheck)]
            /\ UNCHANGED <<connected, chan0, chan2, renet_events, responses,
                           expiry, vouched, scenB>>
       ELSE IF JustFinished(timer)
       THEN \* the window expired
            LET gone == ExpiryDisconnects(connected, responses)
            IN  /\ connected' = ServerDisconnect(connected, gone)
                /\ \E order \in Orders(gone) :
                       renet_events' = renet_events \o DisconnectEvents(connected, order)
                /\ chan0' = [c \in ClientIds |-> IF c \in gone THEN <<>> ELSE chan0[c]]
                /\ chan2' = [c \in ClientIds |-> IF c \in gone THEN <<>> ELSE chan2[c]]
                /\ responses' = {}
                /\ timer' = ResetAndPause(timer)
                /\ latch' = FALSE
                /\ expiry' = [happened |-> TRUE, conn |-> connected, resp |-> responses,
                              vouched |-> vouched, answered |-> answered]
                /\ vouched' = {}
                /\ answered' = {}
                /\ armedFor' = 0
                /\ scenB' = IF ScenarioB THEN "expired" ELSE "none"
                /\ probes' = 0
                /\ UNCHANGED <<sent, probe>>
       ELSE /\ timer' = TimerTick(timer)
            /\ UNCHANGED <<connected, chan0, chan2, renet_events, responses, latch, sent,
                           expiry, vouched, answered, armedFor, scenB, probes, probe>>
    /\ UNCHANGED <<pc, budget, server_events, lobby, player, pinput, table0, table2,
                   commands, playing, scoreleft, scoreright, is_reset_due, handled,
                   spoofed, lastInput, pinput0, moved, signalled, announced>>
    /\ UNCHANGED rest

\* ---------------------------------------------------------------- resetter

\* server.rs:142-170; it runs once the RenetErrors of the frame are read.
resetter ==
    /\ pc = "panic_on_error"
    /\ ~ErrorsToRead(renet_error)
    /\ pc' = "move_players"
    /\ IF is_reset_due
       THEN is_reset_due' = FALSE /\ playing' = TRUE
       ELSE UNCHANGED <<is_reset_due, playing>>
    /\ UNCHANGED <<budget, connected, chan0, chan2, renet_events, server_events,
                   renet_error, sent, lobby, player, pinput, table0, table2, commands,
                   responses, timer, latch, scoreleft, scoreright, hist>>
    /\ UNCHANGED rest

\* ------------------------------------------------------ move_players_system

\* server.rs:298-306: every entity with a PlayerInput is moved by it. The
\* system shares no data with the other systems of the Update stage, and the
\* PlayerInput components do not change before the stage's Commands are
\* applied, so its place among them makes no difference.
move_players_system ==
    /\ pc = "move_players"
    /\ pc' = "apply"
    /\ moved' = pinput
    /\ UNCHANGED <<budget, prog, hist1, probes, probe, lastInput, pinput0, signalled, announced>>
    /\ UNCHANGED rest

\* The end of the Update stage: the queued Commands are applied in order.
ApplyCommands ==
    /\ pc = "apply"
    /\ pc' = "send_packets"
    /\ LET w == ApplyAll([player |-> player, pinput |-> pinput,
                          table0 |-> table0, table2 |-> table2], commands)
       IN  /\ player' = w.player
           /\ pinput' = w.pinput
           /\ table0' = w.table0
           /\ table2' = w.table2
    /\ commands' = <<>>
    /\ pinput0' = pinput
    /\ UNCHANGED <<budget, connected, chan0, chan2, renet_events, server_events,
                   renet_error, sent, lobby, responses, timer, latch,
                   playing, scoreleft, scoreright, is_reset_due, hist1,
                   probes, probe, lastInput, moved, signalled, announced>>
    /\ UNCHANGED rest

\* bevy_renet's send_packets_system (PostUpdate): the frame's messages leave.
send_packets_system ==
    /\ pc = "send_packets"
    /\ pc' = "fixed_update"
    /\ sent' = EmptyBag
    /\ handled' = NoEvent
    /\ expiry' = NoExpiry
    /\ spoofed' = {}
    /\ scenB' = IF scenB = "expired" THEN "due" ELSE "none"
    /\ probe' = NoProbe
    /\ lastInput' = [c \in ClientIds |-> NoInput]
    /\ pinput0' = [e \in Paddles |-> NoInput]
    /\ moved' = [e \in Paddles |-> NoInput]
    /\ UNCHANGED <<budget, connected, chan0, chan2, renet_events, server_events,
                   renet_error, game, vouched, answered, armedFor, probes, signalled, announced>>
    /\ UNCHANGED rest

\* common_game.rs:635-720 in the fixed_update stage, run_if(is_game_active):
\* the ball may hit the left or the right wall, which scores.
check_for_collisions ==
    /\ pc = "fixed_update"
    /\ pc' = "transport"
    /\ \E hit \in {"none", "left", "right"} :
          /\ hit # "none" => playing
          /\ hit = "left" => scoreleft < MaxScore
          /\ hit = "right" => scoreright < MaxScore
          /\ scoreleft' = IF hit = "left" THEN scoreleft + 1 ELSE scoreleft
          /\ scoreright' = IF hit = "right" THEN scoreright + 1 ELSE scoreright
    /\ UNCHANGED <<budget, connected, chan0, chan2, renet_events, server_events,
                   renet_error, sent, lobby, player, pinput, table0, table2, commands,
                   responses, timer, latch, playing, is_reset_due, hist>>
    /\ UNCHANGED rest

\* ------------------------------------------------------------- the client

server == <<pc, budget, prog, hist>>

\* server.rs:278-291, server_sync_players: a GameState of the server arrives
\* on the client's channel 1.
ReceiveSnapshot(g) ==
    /\ Len(chan1) < MaxQueue
    /\ chan1' = Append(chan1, g)
    /\ UNCHANGED <<client, before, drainedQ, proto, boot, mainv, server>>

\* A notice or a probe of the server arrives on the client's channel 0.
ReceiveNotice(m) ==
    /\ Len(cin0) < MaxQueue
    /\ cin0' = Append(cin0, m)
    /\ UNCHANGED <<client, chan1, before, drainedQ, session_id, cout2, drained0, boot, mainv, server>>

\* client.rs:80-113, client_sync_players: every pending message of channel 0
\* is handled, a PlayerCheck being answered on channel 2, and then every
\* pending GameState is applied in the order received.
client_sync_players ==
    /\ cout2' = Answers(cin0, session_id)
    /\ cin0' = <<>>
    /\ drained0' = cin0
    /\ client' = ApplySnapshots(client, chan1)
    /\ chan1' = <<>>
    /\ before' = client
    /\ drainedQ' = chan1
    /\ UNCHANGED <<session_id, boot, mainv, server>>

\* -------------------------------------------------------- the client's main

\* Time passes: the next reading of the clock is a later millisecond.
Tick ==
    /\ clock < Epoch + MaxTicks
    /\ clock' = clock + 1
    /\ UNCHANGED <<main_pc, main_id, token, cli, boot, server>>

\* client.rs:43-51, main: the id is the clock's reading in milliseconds, and
\* its 8 big-endian bytes are written on the stream to the bootstrap server.
main_write_id ==
    /\ main_pc = "start"
    /\ main_id' = clock
    /\ main_pc' = "written"
    /\ UNCHANGED <<clock, token, cli, boot, server>>

\* client.rs:52, main: ConnectToken::read(&mut stream)
main_read_token ==
    /\ main_pc = "written"
    /\ out[1] # <<>>
    /\ token' = Head(out[1])
    /\ main_pc' = "token"
    /\ UNCHANGED <<clock, main_id, cli, boot, server>>

\* client.rs:28-39, new_renet_client called from main (client.rs:68): the
\* client id of the RenetClient is a reading of the clock taken here.
new_renet_client ==
    /\ main_pc = "token"
    /\ session_id' = clock
    /\ main_pc' = "running"
    /\ UNCHANGED <<clock, main_id, token, client, chan1, before, drainedQ,
                   cin0, cout2, drained0, boot, server>>

\* ------------------------------------------------- the bootstrap server

\* A client connects, with the id it is going to write: listener.incoming()
\* yields Ok(s) and the accept loop hands handle_connection(s, key) to the
\* pool (server.rs:89-95).
Accept(c, id) ==
    /\ listening
    /\ job[c] = "none"
    /\ job' = [job EXCEPT ![c] = "queued"]
    /\ jobs' = Append(jobs, c)
    /\ wrote' = [wrote EXCEPT ![c] = id]
    /\ UNCHANGED <<listening, workers, stream, abortSaw, out, pkey, cli, mainv, server>>

\* listener.incoming() yields Err(e): the accept loop panics (server.rs:97).
AcceptError ==
    /\ listening
    /\ listening' = FALSE
    /\ UNCHANGED <<workers, jobs, job, stream, abortSaw, cred, cli, mainv, server>>

\* An idle worker of the pool takes the oldest job.
StartJob ==
    /\ jobs # <<>>
    /\ WorkerIdle(Cardinality(Running), workers)
    /\ job' = [job EXCEPT ![Head(jobs)] = "running"]
    /\ jobs' = Tail(jobs)
    /\ UNCHANGED <<listening, workers, stream, abortSaw, cred, cli, mainv, server>>

\* The peer writes n more bytes of its client id.
Deliver(c, n) ==
    /\ job[c] # "none"
    /\ ~stream[c].closed
    /\ stream[c].got + n <= HandshakeLen
    /\ stream' = [stream EXCEPT ![c].got = @ + n]
    /\ UNCHANGED <<listening, workers, jobs, job, abortSaw, cred, cli, mainv, server>>

\* The peer closes the stream.
CloseStream(c) ==
    /\ job[c] # "none"
    /\ ~stream[c].closed
    /\ stream' = [stream EXCEPT ![c].closed = TRUE]
    /\ UNCHANGED <<listening, workers, jobs, job, abortSaw, cred, cli, mainv, server>>

\* the other connections whose job is queued or running
SeenBy(c) == {d \in AllConns \ {c} : job[d] \in {"queued", "running"}}

\* handle_connection, had it been given the Playing resource of the server loop
handle_connection_pausing(c) ==
    /\ job[c] = "running"
    /\ stream[c].got >= HandshakeLen
    /\ job' = [job EXCEPT ![c] = "token"]
    /\ out' = [out EXCEPT ![c] = Append(@, Token(FromBeBytes(BytesRead(c)), pkey))]
    /\ playing' = FALSE
    /\ UNCHANGED <<pc, budget, connected, chan0, chan2, renet_events, server_events,
                   renet_error, sent, lobby, player, pinput, table0, table2, commands,
                   responses, timer, latch, scoreleft, scoreright, is_reset_due, hist>>
    /\ UNCHANGED <<listening, workers, jobs, stream, abortSaw, wrote, pkey, cli, mainv>>
\* server.rs:66-84, handle_connection on a worker: read_exact returns once 8
\* bytes are there, and the token is generated for their big-endian value and
\* written; at end of stream before that it returns an error and unwrap()
\* panics on the worker.
handle_connection(c) ==
    /\ job[c] = "running"
    /\ IF stream[c].got >= HandshakeLen
       THEN \* token.write(&mut stream).unwrap() may fail once the peer is gone
            \/ /\ job' = [job EXCEPT ![c] = "token"]
               /\ out' = [out EXCEPT ![c] = Append(@, Token(FromBeBytes(BytesRead(c)), pkey))]
               /\ UNCHANGED <<workers, abortSaw>>
            \/ /\ stream[c].closed
               /\ job' = [job EXCEPT ![c] = "panicked"]
               /\ workers' = WorkersAfterPanic(workers)
               /\ abortSaw' = abortSaw \cup SeenBy(c)
               /\ out' = out
       ELSE /\ stream[c].closed
            /\ job' = [job EXCEPT ![c] = "panicked"]
            /\ workers' = WorkersAfterPanic(workers)
            /\ abortSaw' = abortSaw \cup SeenBy(c)
            /\ out' = out
    /\ UNCHANGED <<listening, jobs, stream, wrote, pkey, cli, mainv, server>>
\* ------------------------------------------------------- specifications

\* One step of the frame of the server.
Frame ==
    \/ update_system
    \/ HandleClientConnected
    \/ HandleClientDisconnected
    \/ ReceiveMessages
    \/ panic_on_error_system
    \/ resetter
    \/ move_players_system
    \/ ApplyCommands
    \/ send_packets_system
    \/ check_for_collisions

\* The server with every input of the transport.
Next ==
    \/ \E id \in ClientIds : OpenSession(id)
    \/ \E id \in ClientIds : CloseSession(id)
    \/ \E id \in ClientIds, v \in Inputs : SendInput(id, v)
    \/ \E id \in ClientIds, claimed \in ClientIds : SendCheckResponse(id, claimed)
    \/ TransportError
    \/ Frame

Spec == Init /\ [][Next]_vars

\* The lobby: sessions open and close, the transport reports no error, so
\* panic_on_error_system has no RenetError to read.
NextLobby ==
    \/ \E id \in ClientIds : OpenSession(id)
    \/ \E id \in ClientIds : CloseSession(id)
    \/ update_system
    \/ HandleClientConnected
    \/ HandleClientDisconnected
    \/ ReceiveMessages
    \/ resetter
    \/ move_players_system
    \/ ApplyCommands
    \/ send_packets_system
    \/ check_for_collisions

SpecLobby == Init /\ [][NextLobby]_vars

\* The liveness monitor: the clients ProbedIds open and close sessions and
\* send check-responses, and the transport reports errors.
NextMonitor ==
    \/ \E id \in ProbedIds : OpenSession(id)
    \/ \E id \in ProbedIds : CloseSession(id)
    \/ \E id \in ProbedIds, claimed \in ProbedIds : SendCheckResponse(id, claimed)
    \/ TransportError
    \/ Frame

SpecMonitor == Init /\ [][NextMonitor]_vars

\* The same, with a server loop that keeps ticking.
FairMonitor == SpecMonitor /\ WF_vars(Frame)

\* The wire: the clients ProbedIds open and close sessions and send input
\* samples, check-responses and bytes that deserialize to no message; the
\* transport reports no error.
NextWire ==
    \/ \E id \in ProbedIds : OpenSession(id)
    \/ \E id \in ProbedIds : CloseSession(id)
    \/ \E id \in ProbedIds, v \in Inputs : SendInput(id, v)
    \/ \E id \in ProbedIds : SendCheckResponse(id, id)
    \/ \E id \in ProbedIds, channel \in {0, 2} : SendMalformed(id, channel)
    \/ update_system
    \/ HandleClientConnected
    \/ HandleClientDisconnected
    \/ ReceiveMessages
    \/ resetter
    \/ move_players_system
    \/ ApplyCommands
    \/ send_packets_system
    \/ check_for_collisions

SpecWire == Init /\ [][NextWire]_vars

\* The inputs of the players: the clients ProbedIds open and close sessions
\* and send input samples; the transport reports no error.
NextInput ==
    \/ \E id \in ProbedIds : OpenSession(id)
    \/ \E id \in ProbedIds : CloseSession(id)
    \/ \E id \in ProbedIds, v \in Inputs : SendInput(id, v)
    \/ update_system
    \/ HandleClientConnected
    \/ HandleClientDisconnected
    \/ ReceiveMessages
    \/ resetter
    \/ move_players_system
    \/ ApplyCommands
    \/ send_packets_system
    \/ check_for_collisions

SpecInput == Init /\ [][NextInput]_vars

\* The client applying the snapshots it receives.
NextClient ==
    \/ \E g \in GameStates : ReceiveSnapshot(g)
    \/ \E m \in ServerNotices : ReceiveNotice(m)
    \/ client_sync_players

SpecClient == Init /\ [][NextClient]_vars

\* The bootstrap server and its peers.
NextBoot ==
    \/ \E c \in ConnIds, id \in BootIds : Accept(c, id)
    \/ AcceptError
    \/ StartJob
    \/ \E c \in ConnIds, n \in Chunks : Deliver(c, n)
    \/ \E c \in ConnIds : CloseStream(c)
    \/ \E c \in ConnIds : handle_connection(c)

SpecBoot == Init /\ [][NextBoot]_vars

\* The pool under load: more peers connect than the pool has workers; a peer
\* writes its whole client id at once or stalls, and none closes.
NextPool ==
    \/ \E c \in PoolConns : Accept(c, 256)
    \/ StartJob
    \/ \E c \in PoolConns : Deliver(c, HandshakeLen)
    \/ \E c \in PoolConns : handle_connection(c)

SpecPool == Init /\ [][NextPool]_vars

\* One step of the credential service.
BootStep ==
    \/ \E c \in AllConns, id \in BootIds : Accept(c, id)
    \/ AcceptError
    \/ StartJob
    \/ \E c \in AllConns, n \in Chunks : Deliver(c, n)
    \/ \E c \in AllConns : CloseStream(c)
    \/ \E c \in AllConns : handle_connection(c)

\* The process: the thread of the credential service, serving one peer, next
\* to the server loop with the traffic of the liveness monitor.
NextProcess ==
    \/ \E id \in ProbedIds : OpenSession(id)
    \/ \E id \in ProbedIds : CloseSession(id)
    \/ SendCheckResponse(100, 100)
    \/ TransportError
    \/ Frame
    \/ Accept(1, 256)
    \/ StartJob
    \/ Deliver(1, HandshakeLen)
    \/ handle_connection(1)

SpecProcess == Init /\ [][NextProcess]_vars


\* A client from the start of its main: it fetches its ConnectToken from the
\* credential service, builds its RenetClient and, once app.run() is reached,
\* answers the probes of the server.
NextSession ==
    \/ Tick
    \/ main_write_id
    \/ main_pc = "written" /\ Accept(1, main_id)
    \/ StartJob
    \/ \E n \in Chunks : Deliver(1, n)
    \/ handle_connection(1)
    \/ main_read_token
    \/ new_renet_client
    \/ main_pc = "running" /\ (\E m \in ServerNotices : ReceiveNotice(m))
    \/ main_pc = "running" /\ client_sync_players

\* The server and the credential service after construction, and the client
\* at the start of its main.
InitSession == InitServer /\ InitMain /\ InitBoot

SpecSession == InitSession /\ [][NextSession]_vars

\* ------------------------------------------------------------ the claims

\* paddles bound to the clients S in the lobby
BoundPaddles(S) == {lobby[p] : p \in S}

\* C1: after any sequence of ClientConnected and ClientDisconnected events,
\* several of them in one server tick included, the lobby holds at most 2
\* client ids, and when it holds 2 they are bound to two different paddles,
\* one Left and one Right.
C1_LobbyAtMostTwoDistinct ==
    /\ Cardinality(Keys(lobby)) <= 2
    /\ Cardinality(Keys(lobby)) = 2 => BoundPaddles(Keys(lobby)) = {Left, Right}

\* The server has just handled a ServerEvent of this frame.
JustHandled(type) == pc = "server_update" /\ handled.type = type

\* C6: whenever handling a ClientDisconnected event leaves the lobby with 1
\* or 0 entries, playing is false and both scores are 0 right after the
\* event is handled, whatever they were before.
C6_DisconnectPausesAndZeroes ==
    JustHandled("ClientDisconnected") /\ Cardinality(Keys(lobby)) <= 1
        => ~playing /\ scoreleft = 0 /\ scoreright = 0

\* C6, its case: the game was on and a point was scored when the event came.
C6_Witness ==
    /\ JustHandled("ClientDisconnected") /\ Cardinality(Keys(lobby)) <= 1
    /\ handled.outcome = "removed"
    /\ handled.wasPlaying /\ handled.hadScore

\* C7: a client admitted by the transport while no paddle is free (each
\* paddle has a client of the lobby bound to it) is disconnected in the step
\* that handles its ClientConnected: it is not inserted into the lobby, it
\* is sent nothing, no connect notice for it is broadcast, and nothing is
\* queued for it.
C7_FullLobbyRejects ==
    JustHandled("ClientConnected") /\ BoundPaddles(handled.peers) = Paddles
        => /\ handled.outcome = "rejected"
           /\ handled.id \notin Keys(lobby)
           /\ handled.id \notin connected
           /\ handled.msgs = EmptyBag
           /\ handled.queued = 0

\* C9: starting from an empty lobby, the first client admitted is bound to
\* the Left paddle and the next one to the Right paddle, and each is told
\* that side in its PlayerIsSide message.
C9_FirstLeftNextRight ==
    JustHandled("ClientConnected") /\ handled.outcome = "admitted"
        => /\ handled.peers = {} => handled.side = Left
           /\ BoundPaddles(handled.peers) = {Left} /\ Cardinality(handled.peers) = 1
                  => handled.side = Right
           /\ handled.id \in handled.conn
                  => CopiesIn(Msg(handled.id, 0, PlayerIsSide(handled.side)), handled.msgs) = 1

\* Every message of the bag went out on the channel.
AllOnChannel(msgs, channel) == \A m \in BagToSet(msgs) : m.channel = channel

\* C10, as stated: on a successful admission of client B, B is sent one
\* PlayerConnected for each id already in the lobby, and every client that
\* was already in the lobby is sent PlayerConnected(B), all on channel 0.
C10_NoticesToAll ==
    JustHandled("ClientConnected") /\ handled.outcome = "admitted"
        => /\ \A p \in handled.peers :
                 /\ CopiesIn(Msg(handled.id, 0, PlayerConnected(p)), handled.msgs) = 1
                 /\ CopiesIn(Msg(p, 0, PlayerConnected(handled.id)), handled.msgs) = 1
           /\ AllOnChannel(handled.msgs, 0)

\* C10, amended: on a successful admission of client B, B, if its session is
\* still connected, is sent exactly one PlayerConnected for each id already
\* in the lobby, and every client already in the lobby whose session is
\* still connected is sent exactly one PlayerConnected(B); every message of
\* the admission goes out on channel 0.
C10_NoticesToConnected ==
    JustHandled("ClientConnected") /\ handled.outcome = "admitted"
        => /\ handled.id \in handled.conn =>
                 \A p \in handled.peers :
                     CopiesIn(Msg(handled.id, 0, PlayerConnected(p)), handled.msgs) = 1
           /\ \A p \in handled.peers \cap handled.conn :
                 CopiesIn(Msg(p, 0, PlayerConnected(handled.id)), handled.msgs) = 1
           /\ AllOnChannel(handled.msgs, 0)

\* C10, its case: B and a peer of the lobby are both connected at B's admission.
C10_Witness ==
    /\ JustHandled("ClientConnected") /\ handled.outcome = "admitted"
    /\ handled.id \in handled.conn
    /\ handled.peers \cap handled.conn # {}

\* C2: every client that was connected when the collection window expired
\* and whose id was not in the collected set has been disconnected by the
\* server when the cycle is back in Idle.
C2_NonRespondersDisconnected ==
    expiry.happened =>
        \A c \in expiry.conn \ expiry.resp :
            /\ c \notin connected
            /\ ClientDisconnected(c) \in Range(renet_events)

\* C2, its case: the window expired and a connected client had not answered.
C2_Witness ==
    /\ expiry.happened /\ timer.paused /\ ~latch
    /\ expiry.conn \ expiry.resp # {}
    /\ expiry.conn \cap expiry.resp # {}

\* C3: a connected client whose own check-response (claimed id = its
\* authenticated id) arrived after the probe of the cycle and before the
\* window expired is not disconnected by the expiry of that cycle.
C3_RespondersKept ==
    expiry.happened =>
        \A c \in expiry.answered \cap expiry.conn :
            /\ c \in connected
            /\ ClientDisconnected(c) \notin Range(renet_events)

\* C3, its case: one client answered the probe and stays, another is disconnected.
C3_Witness ==
    /\ expiry.happened
    /\ expiry.answered \cap expiry.conn # {}
    /\ expiry.conn \ connected # {}

\* C4: a check-response from sender S claiming id C enters the collected
\* set only if C = S, so the collected set holds exactly the ids that sent
\* a response of their own; a client that sent none is disconnected when the
\* window expires, whoever else claimed its id.
C4_OnlyOwnIdCollected ==
    /\ responses = vouched
    /\ expiry.happened =>
           /\ expiry.resp = expiry.vouched
           /\ \A C \in expiry.conn \ expiry.vouched : C \notin connected

\* C4, its case: in the frame of the expiry another sender claimed the id of
\* a connected client that sent nothing of its own, and that client is gone.
C4_Witness ==
    /\ expiry.happened
    /\ \E C \in spoofed : C \in expiry.conn /\ C \notin expiry.vouched /\ C \notin connected

\* C5: every probe cycle that a transport error arms is eventually resolved
\* (the cycle is back in Idle), provided the server loop keeps ticking,
\* whether or not another transport error arrives.
C5_EveryCycleResolves == latch ~> ~latch

\* C8, as stated: in scenario B, at the window expiry the lobby is exactly
\* {100: Left}, playing is false and both scores are 0.
C8_ScenarioBAtExpiry ==
    scenB = "expired" =>
        /\ Keys(lobby) = {100} /\ lobby[100] = Left
        /\ ~playing /\ scoreleft = 0 /\ scoreright = 0

\* C8, amended: in scenario B, once the server has handled, in the tick after
\* the window expiry, the ClientDisconnected event that the expiry raised
\* for 200, the lobby is exactly {100: Left}, playing is false and both
\* scores are 0.
C8_ScenarioBAfterDisconnect ==
    scenB = "handled" =>
        /\ Keys(lobby) = {100} /\ lobby[100] = Left
        /\ ~playing /\ scoreleft = 0 /\ scoreright = 0

\* C8, its case: the event of 200 is handled while a point was on the board.
C8_Witness ==
    /\ scenB = "handled"
    /\ handled.type = "ClientDisconnected" /\ handled.id = 200
    /\ handled.outcome = "removed"
    /\ handled.wasPlaying /\ handled.hadScore

\* C11: the admission that brings the lobby to 2 entries raises the
\* reset-due flag, and nothing else raises it; a resetter run that finds the
\* flag raised clears it and sets playing to true, and a resetter run that
\* finds it down changes nothing of the game.
C11_ResetFlagConsumedOnce ==
    [][ /\ (HandleClientConnected /\ handled'.outcome = "admitted"
               /\ Cardinality(Keys(lobby')) = 2) => is_reset_due'
        /\ (~is_reset_due /\ is_reset_due') =>
               (HandleClientConnected /\ handled'.outcome = "admitted")
        /\ (resetter /\ is_reset_due) => (~is_reset_due' /\ playing')
        /\ (resetter /\ ~is_reset_due) => UNCHANGED game
      ]_vars

\* C11, its case: the second client was admitted in this frame and the
\* resetter has consumed the flag.
C11_Witness ==
    /\ pc = "apply"
    /\ handled.type = "ClientConnected" /\ handled.outcome = "admitted"
    /\ Cardinality(Keys(lobby)) = 2
    /\ ~handled.wasPlaying
    /\ ~is_reset_due /\ playing

\* C12: between the arming of a probe cycle and its resolution exactly one
\* PlayerCheck broadcast is made, however many transport errors arrive,
\* those of the arming tick included.
C12_OneProbePerCycle ==
    /\ latch => probes = 1
    /\ ~latch => probes = 0

\* C12, its case: a further transport error was handled in the tick that armed.
C12_Witness ==
    /\ latch /\ probes = 1
    /\ armedFor = 0 /\ timer.elapsed >= 1

\* C13: handling a transport error while a probe cycle is in progress leaves
\* the cycle state, the elapsed part of the window, the collected set and
\* the set of connected clients unchanged.
C13_ErrorInCycleIgnored ==
    [][(panic_on_error_system /\ latch) => UNCHANGED <<latch, timer, responses, connected>>]_vars

C15_LastInputWins ==
    pc = "send_packets" =>
        \A c \in Keys(lobby) :
            /\ lastInput[c] # NoInput => pinput[lobby[c]] = lastInput[c]
            /\ lastInput[c] = NoInput /\ pinput[lobby[c]] # pinput0[lobby[c]]
                   => pinput[lobby[c]] \notin Inputs

\* the last snapshot of the client's last drain
LastDrained == drainedQ[Len(drainedQ)]

C17_SnapshotIdempotent ==
    /\ \A g \in GameStates :
           set_gamestate(set_gamestate(client, g), g) = set_gamestate(client, g)
    /\ (Len(drainedQ) >= 2 /\ drainedQ[Len(drainedQ) - 1] = LastDrained)
           => client = ApplySnapshots(before, SubSeq(drainedQ, 1, Len(drainedQ) - 1))

\* C17, its case: the drain applied a snapshot twice in a row and the first
\* application changed the world.
C17_Witness ==
    /\ Len(drainedQ) >= 2
    /\ drainedQ[Len(drainedQ) - 1] = LastDrained
    /\ before # client

\* C18: a bootstrap connection that delivers fewer than 8 bytes and closes
\* gets no token (a token goes only to a connection that delivered 8
\* bytes), and the panic of its job leaves the accept loop, the size of the
\* pool, the queue and every other connection as they were.
C18_TruncatedHandshakeIsolated ==
    [][ /\ \A c \in ConnIds : job'[c] = "token" => stream'[c].got = HandshakeLen
        /\ \A c \in ConnIds :
               (handle_connection(c) /\ job'[c] = "panicked") =>
                   /\ listening' = listening
                   /\ workers' = workers
                   /\ jobs' = jobs
                   /\ \A d \in ConnIds \ {c} : job'[d] = job[d] /\ stream'[d] = stream[d]
      ]_vars

\* C18, its case: a connection closed after 5 bytes and its job panicked; a
\* handshake in progress at that moment and one accepted later both got
\* their token.
C18_Witness ==
    \E c, d, e \in ConnIds :
        /\ job[c] = "panicked" /\ stream[c].got = 5 /\ stream[c].closed
        /\ d \in abortSaw /\ job[d] = "token"
        /\ e \notin abortSaw /\ e # c /\ job[e] = "token"

\* C19: at the end of every tick, playing = true implies that the lobby
\* holds exactly 2 entries.
C19_PlayingNeedsTwo ==
    pc = "transport" => (playing => Cardinality(Keys(lobby)) = 2)

\* C20: handling ClientDisconnected(id) for a client of the lobby removes id
\* from the lobby, broadcasts PlayerDisconnected(id) to the remaining
\* connected clients, and frees its paddle: the next client whose
\* ClientConnected is handled is bound to a paddle as long as a released
\* paddle has no client bound to it.
C20_DisconnectFreesPaddle ==
    /\ JustHandled("ClientDisconnected") /\ handled.outcome = "removed"
           => /\ handled.id \notin Keys(lobby)
              /\ \A p \in Keys(lobby) \cap connected :
                     CopiesIn(Msg(p, 0, PlayerDisconnected(handled.id)), handled.msgs) = 1
    /\ JustHandled("ClientConnected") /\ handled.freed \ BoundPaddles(handled.peers) # {}
           => handled.outcome = "admitted"

\* The liveness monitor is Idle: the timer is paused and the latch is down.
Idle == timer.paused /\ ~latch

\* C21: when a collection window expires, the collected set is emptied and
\* the monitor is Idle again (timer reset and paused, latch false); the
\* monitor stays Idle until the next transport error, and that error arms a
\* new cycle and broadcasts a new probe.
C21_ExpiryReturnsToIdle ==
    [][ /\ (panic_on_error_system /\ latch /\ ~latch') =>
               /\ responses' = {}
               /\ timer' = [elapsed |-> 0, paused |-> TRUE]
               /\ Idle'
        /\ (Idle /\ ~panic_on_error_system) => Idle'
        /\ (Idle /\ panic_on_error_system) =>
               /\ ~Idle' /\ latch' /\ ~timer'.paused
               /\ probe'.happened
               /\ probe'.msgs = BroadcastMessage(connected, 0, PlayerCheck)
               /\ sent' = sent (+) probe'.msgs
      ]_vars

\* C21, its case: in one frame a window expired and the next transport error
\* armed a new cycle, whose probe went to a client that is still connected.
C21_Witness ==
    /\ expiry.happened /\ probe.happened
    /\ latch /\ ~timer.paused
    /\ probe.conn # {}

\* C22: within one tick the draining of a client's input messages happens
\* before that tick's paddle movement: the input sample drained from a
\* client in tick t is the one its paddle is moved by in tick t.
C22_InputMovesSameTick ==
    pc = "send_packets" =>
        \A c \in Keys(lobby) :
            lastInput[c] # NoInput => moved[lobby[c]] = lastInput[c]

\* C23: the liveness monitor acts only on transport errors: as long as the
\* transport has reported none, no PlayerCheck is broadcast, no cycle is
\* armed and the monitor disconnects no client; and handling a transport
\* error never ends the server loop, the frame goes on with the next
\* RenetError or with the systems after it.
C23_MonitorActsOnErrorsOnly ==
    /\ [](~signalled =>
              /\ Idle /\ timer.elapsed = 0
              /\ probes = 0 /\ ~probe.happened /\ ~expiry.happened
              /\ \A m \in BagToSet(sent) : m.message # PlayerCheck)
    /\ [][ /\ panic_on_error_system => (renet_error > 0 /\ signalled)
           /\ panic_on_error_system =>
                  /\ pc' = "panic_on_error"
                  /\ (ENABLED panic_on_error_system \/ ENABLED resetter)'
           /\ (connected' # connected) =>
                  \/ panic_on_error_system
                  \/ \E id \in ClientIds : OpenSession(id) \/ CloseSession(id)
                  \/ HandleClientConnected
         ]_vars

\* C23, its case: no transport error so far, two clients are connected and a
\* check-response has even been collected, and the frame has passed the
\* monitor.
C23_Witness ==
    /\ ~signalled
    /\ pc = "apply"
    /\ Cardinality(connected) = 2
    /\ responses # {}

\* C24, as stated: a handshake that delivers 8 bytes yields exactly one
\* credential, minted for the client id that is the big-endian value of
\* those bytes and for the server's public address and protocol id and
\* written once on the same stream, after which the worker finishes and the
\* stream is closed.
C24_EightBytesYieldCredential ==
    \A c \in ConnIds :
        (stream[c].got = HandshakeLen /\ Dropped(c)) =>
            /\ job[c] = "token"
            /\ out[c] = <<Token(wrote[c], pkey)>>

\* C24, amended: no stream ever carries more than one credential, and one is
\* written only to a connection that delivered 8 bytes; a finished handshake
\* wrote exactly one, minted with the process key for the client id whose
\* big-endian bytes the peer wrote, for PUB_IP and PROTOCOL_ID, and its
\* stream is then closed; a handshake that delivered 8 bytes can end without
\* a credential only if the peer had closed the stream, in which case its
\* worker panicked in the write.
C24_CredentialOncePerHandshake ==
    \A c \in ConnIds :
        /\ Len(out[c]) <= 1
        /\ out[c] # <<>> => job[c] = "token" /\ stream[c].got = HandshakeLen
        /\ job[c] = "token" =>
               /\ out[c] = <<Token(wrote[c], pkey)>>
               /\ out[c][1].client_id = wrote[c]
               /\ out[c][1].server_addresses = <<PUB_IP>>
               /\ out[c][1].protocol_id = PROTOCOL_ID
               /\ Dropped(c)
        /\ (stream[c].got = HandshakeLen /\ Dropped(c) /\ job[c] # "token") =>
               stream[c].closed /\ job[c] = "panicked"

\* C24, its case: two handshakes with different client ids are finished,
\* each with its credential, the peer of one still having its end open.
C24_Witness ==
    \E c, d \in ConnIds :
        /\ job[c] = "token" /\ job[d] = "token"
        /\ wrote[c] # wrote[d]
        /\ out[c] # <<>> /\ out[d] # <<>>
        /\ ~stream[c].closed

\* handshakes that hold a worker and wait: the peer has neither written its
\* 8 bytes nor closed
Stalled == {c \in Running : stream[c].got < HandshakeLen /\ ~stream[c].closed}

\* C25: at most 4 handshakes are in progress at any time and further
\* accepted connections wait in the pool's queue; a stalled handshake does
\* not end by itself, and while 4 handshakes are stalled no queued
\* connection is served.
C25_PoolBoundsHandshakes ==
    /\ Cardinality(Running) <= PoolSize
    /\ workers = PoolSize
    /\ \A c \in AllConns : job[c] = "queued" <=> c \in Range(jobs)
    /\ \A c \in Stalled : ~ENABLED handle_connection(c)
    /\ Cardinality(Stalled) = PoolSize => ~ENABLED StartJob

\* C25, its case: 4 handshakes are stalled and a fifth connection, which has
\* already written its 8 bytes, waits in the queue.
C25_Witness ==
    /\ Cardinality(Stalled) = PoolSize
    /\ jobs # <<>>
    /\ stream[Head(jobs)].got = HandshakeLen

\* C26: no step of the credential service (accept loop or handshake worker)
\* changes the lobby, the playing flag, the scores, the reset-due flag, the
\* collected set or the liveness timer; the signing key never changes after
\* the start of the process, and a credential is signed with it.
C26_CredentialServiceFrame ==
    [][ /\ BootStep =>
               UNCHANGED <<lobby, playing, scoreleft, scoreright, is_reset_due,
                           responses, timer, latch>>
        /\ pkey' = pkey
        /\ \A c \in AllConns :
               out'[c] # out[c] => out'[c][Len(out'[c])].private_key = pkey
      ]_vars

\* C26, its case: a credential was minted while a game with a point on the
\* board was on and a probe cycle with a collected response was in progress.
C26_Witness ==
    /\ job[1] = "token" /\ out[1] # <<>>
    /\ playing /\ scoreleft + scoreright > 0
    /\ Cardinality(Keys(lobby)) = 2
    /\ latch /\ ~timer.paused /\ responses # {}

\* a connected client has a message pending that does not deserialize
MalformedPending ==
    \E c \in connected : Bad(chan0[c], 0) # {} \/ Bad(chan2[c], 2) # {}

\* C27: a message on channel 0 or channel 2 that fails to deserialize is not
\* dropped with the session kept alive: the drain that meets it fails, the
\* server update of that tick is aborted, and the messages pending behind it
\* are not handled (no input of theirs is queued for a paddle, no
\* check-response of theirs is collected); a drain that meets no such
\* message completes.
C27_MalformedAbortsTick ==
    [][ /\ (ReceiveMessages /\ MalformedPending) =>
               /\ pc' = "crashed"
               /\ \A c \in connected :
                      /\ Bad(chan0[c], 0) # {} =>
                             /\ c \notin responses' \ responses
                             /\ chan2'[c] = chan2[c]
                             /\ lastInput'[c] # NoInput =>
                                    \E k \in 1..Len(chan0[c]) :
                                        /\ chan0[c][k] = lastInput'[c]
                                        /\ \A j \in 1..k : chan0[c][j] # Malformed(0)
                      /\ (Bad(chan2[c], 2) # {} /\ c \in responses' \ responses) =>
                             \E k \in 1..Len(chan2[c]) :
                                 /\ chan2[c][k] = c
                                 /\ \A j \in 1..k : chan2[c][j] # Malformed(2)
        /\ (ReceiveMessages /\ ~MalformedPending) => pc' = "panic_on_error"
      ]_vars

\* C27, its case: the drain failed on a malformed message of a client, and
\* that client's own check-response, received behind it, is still pending
\* and was not collected.
C27_Witness ==
    /\ pc = "crashed"
    /\ \E c \in connected :
           /\ chan2[c] = <<c>>
           /\ c \notin responses

\* the probes among the channel-0 messages of the client's last drain
ProbesDrained == {k \in 1..Len(drained0) : drained0[k] = PlayerCheck}

\* C28: for every liveness probe it receives, a connected client sends
\* exactly one check-response, on channel 2 and claiming its own client id;
\* it sends no check-response without having received a probe.
C28_OneResponsePerProbe ==
    /\ Len(cout2) = Cardinality(ProbesDrained)
    /\ \A k \in 1..Len(cout2) :
           cout2[k] = [channel |-> 2, message |-> PlayerCheckResponse(session_id)]

\* C28, its case: the client drained a probe together with another notice of
\* the server and sent its one response.
C28_Witness ==
    /\ Len(drained0) = 2
    /\ Cardinality(ProbesDrained) = 1
    /\ Len(cout2) = 1

\* C29: whenever the liveness monitor is Idle the collected set is empty: a
\* check-response received after a window has expired, or with no cycle in
\* progress, is not retained, so a client that did not answer the probe of
\* a cycle is disconnected at its expiry, whatever it sent before that
\* cycle.
C29_IdleHasNoResponses ==
    /\ Idle => responses = {}
    /\ expiry.happened =>
           \A c \in expiry.conn \ expiry.answered : c \notin connected

\* C30: rejecting a client because the lobby is full does not disturb a game
\* in progress: neither the step that rejects it nor the step that handles
\* its ClientDisconnected event (the event of a client that is not in the
\* lobby) changes the lobby, the playing flag or the scores.
C30_RejectionLeavesGame ==
    (\/ JustHandled("ClientConnected") /\ handled.outcome = "rejected"
     \/ JustHandled("ClientDisconnected") /\ handled.outcome = "absent")
        => /\ Keys(lobby) = handled.peers
           /\ playing = handled.wasPlaying
           /\ handled.hadScore => scoreleft + scoreright > 0

\* ---------------------------------------------------------------- C31

\* C31: the server broadcasts PlayerDisconnected for an id only if it has
\* broadcast PlayerConnected for that id and no PlayerDisconnected for it
\* since; in particular not for a client that was rejected on a full lobby.
\* The ClientDisconnected arm (server.rs:243-245) broadcasts for every
\* ClientDisconnected event, and server.disconnect in the None branch
\* (server.rs:196) raises one for the rejected client.
C31_DisconnectNoticeAfterConnect ==
    [][HandleClientDisconnected => Head(server_events).id \in announced]_vars

\* ---------------------------------------------------------------- C32

\* The clients whose lobby entry maps to the paddle e.
EntriesOf(e) == {c \in ClientIds : lobby[c] = e}

\* The frame is past the end of the Update stage: its Commands are applied.
CommandsApplied == pc \in {"send_packets", "fixed_update", "transport"}

\* C32: at the end of every server tick, after the deferred Commands are
\* applied, a paddle carries the Player marker if and only if exactly one
\* lobby entry maps a client id to it.
C32_MarkerIffOneEntry ==
    CommandsApplied =>
        \A e \in Paddles : (e \in player) <=> (Cardinality(EntriesOf(e)) = 1)

\* ---------------------------------------------------------------- C33

\* the ids of the check-responses the client sent in its last drain
ClaimedIds == {cout2[i].message.arg : i \in 1..Len(cout2)}

\* The client's main has built its RenetClient from the token it fetched.
SessionBuilt == main_pc = "running" /\ token # NoToken

\* C33: the client id written on the bootstrap stream, for which the
\* credential is minted, equals the client id of the transport session, so
\* the id claimed in a check-response is the id the client was admitted under.
\* main (client.rs:45-46) and new_renet_client (client.rs:33-34) each take a
\* reading of the clock of their own.
C33_BootstrapIdIsSessionId ==
    SessionBuilt =>
        /\ session_id = main_id
        /\ session_id = token.client_id
        /\ ClaimedIds \subseteq {token.client_id}

\* ---------------------------------------------------------------- C34

\* C34 is about an input sample drained from a connected client that has no
\* lobby entry. When the drain starts (server.rs:251) every ServerEvent of
\* the frame has been handled: a ClientConnected either inserted a lobby
\* entry (server.rs:214) or ended in server.disconnect (server.rs:196), which
\* removes the connection at once, and a lobby entry is removed only for a
\* ClientDisconnected (server.rs:229). So the drain visits no such client,
\* and the else-branch of server.rs:257 runs in no behaviour.
DrainVisitsLobbyOnly ==
    (pc = "server_update" /\ server_events = <<>>) => connected \subseteq Keys(lobby)

====
